---- MODULE Spec2Model ----
(***************************************************************************)
(* Sofia OAuth API (src/src/index.ts): a Cloudflare Worker that proxies    *)
(* OAuth 2.0 authorization-code exchanges to five providers.               *)
(*                                                                         *)
(* Every async function of the worker is modelled as a resumable           *)
(* computation: an operator of the inputs delivered so far (io) that       *)
(* either is suspended at one of its awaits, with the upstream calls it    *)
(* has issued up to there, or has returned its Response.  The actions      *)
(* deliver the next input (the request, the clock, the parsed body, the    *)
(* upstream reply) to one in-flight request and record what it did.        *)
(*                                                                         *)
(* Text is modelled as follows.  Header values, JSON strings and form      *)
(* values are TLA+ strings.  Strings the code takes apart (the Origin      *)
(* value, ALLOWED_ORIGINS, the credentials given to btoa) are sequences    *)
(* of one-character strings, joined by Str when they are written out.      *)
(* A JSON value is the set of its <<path, leaf>> pairs; a response body    *)
(* is the JSON value its text denotes.                                     *)
(***************************************************************************)
EXTENDS Integers, Sequences, FiniteSets, TLC

VARIABLES env, req, io, at, calls, sent

vars == <<env, req, io, at, calls, sent>>

(***************************************************************************)
(* Bounds of the model.                                                    *)
(***************************************************************************)
\* Date.now() returns a value in 0..MaxTime.
MaxTime == 2
\* Requests in flight at once in SpecConc.
MaxReq == 2

(***************************************************************************)
(* Strings as sequences of characters.                                     *)
(***************************************************************************)
RECURSIVE Str(_)
Str(cs) == IF cs = <<>> THEN "" ELSE Head(cs) \o Str(Tail(cs))

Digit(n) ==
    CASE n = 0 -> "0" [] n = 1 -> "1" [] n = 2 -> "2" [] n = 3 -> "3"
      [] n = 4 -> "4" [] n = 5 -> "5" [] n = 6 -> "6" [] n = 7 -> "7"
      [] n = 8 -> "8" [] n = 9 -> "9"

\* Number.prototype.toString / JSON.stringify of a non-negative integer.
RECURSIVE NumText(_)
NumText(n) == IF n < 10 THEN Digit(n) ELSE NumText(n \div 10) \o Digit(n % 10)

\* Mutant: the entries are not trimmed.
trimNothing(cs) == cs

\* String.prototype.trim, over an alphabet whose only white space is " ".
RECURSIVE TrimStart(_)
TrimStart(cs) ==
    IF cs # <<>> /\ Head(cs) = " " THEN TrimStart(Tail(cs)) ELSE cs

RECURSIVE TrimEnd(_)
TrimEnd(cs) ==
    IF cs # <<>> /\ cs[Len(cs)] = " "
    THEN TrimEnd(SubSeq(cs, 1, Len(cs) - 1))
    ELSE cs

trim(cs) == TrimEnd(TrimStart(cs))

\* String.prototype.split(sep) for a one-character separator: the
\* sequence of the pieces between separators ("" splits into <<"">>).
RECURSIVE SplitFrom(_, _, _)
SplitFrom(cs, sep, piece) ==
    IF cs = <<>> THEN <<piece>>
    ELSE IF Head(cs) = sep
         THEN <<piece>> \o SplitFrom(Tail(cs), sep, <<>>)
         ELSE SplitFrom(Tail(cs), sep, Append(piece, Head(cs)))

split(cs, sep) == SplitFrom(cs, sep, <<>>)

\* Array.prototype.includes.
includes(xs, x) == \E n \in 1..Len(xs) : xs[n] = x

(***************************************************************************)
(* btoa: base64 of a string whose code units are all below 256; it throws  *)
(* InvalidCharacterError otherwise.                                        *)
(***************************************************************************)
\* The code unit of each character the credentials of the model use.
\* "U+20AC" stands for the one character EURO SIGN.
CodeUnit(ch) ==
    CASE ch = "1" -> 49 [] ch = "2" -> 50 [] ch = ":" -> 58
      [] ch = "c" -> 99 [] ch = "d" -> 100 [] ch = "i" -> 105
      [] ch = "k" -> 107 [] ch = "p" -> 112 [] ch = "s" -> 115
      [] ch = "t" -> 116 [] ch = "w" -> 119 [] ch = "y" -> 121
      [] ch = "U+20AC" -> 8364

Base64Alphabet ==
    << "A", "B", "C", "D", "E", "F", "G", "H", "I", "J", "K", "L", "M",
       "N", "O", "P", "Q", "R", "S", "T", "U", "V", "W", "X", "Y", "Z",
       "a", "b", "c", "d", "e", "f", "g", "h", "i", "j", "k", "l", "m",
       "n", "o", "p", "q", "r", "s", "t", "u", "v", "w", "x", "y", "z",
       "0", "1", "2", "3", "4", "5", "6", "7", "8", "9", "+", "/" >>

Sextet(n) == Base64Alphabet[n + 1]

RECURSIVE Base64(_)
Base64(bytes) ==
    IF Len(bytes) = 0 THEN ""
    ELSE IF Len(bytes) = 1
    THEN Sextet(bytes[1] \div 4) \o Sextet((bytes[1] % 4) * 16) \o "=="
    ELSE IF Len(bytes) = 2
    THEN Sextet(bytes[1] \div 4)
         \o Sextet((bytes[1] % 4) * 16 + bytes[2] \div 16)
         \o Sextet((bytes[2] % 16) * 4) \o "="
    ELSE Sextet(bytes[1] \div 4)
         \o Sextet((bytes[1] % 4) * 16 + bytes[2] \div 16)
         \o Sextet((bytes[2] % 16) * 4 + bytes[3] \div 64)
         \o Sextet(bytes[3] % 64)
         \o Base64(SubSeq(bytes, 4, Len(bytes)))

\* [ok |-> FALSE] is the thrown InvalidCharacterError.
btoa(cs) ==
    IF \E n \in 1..Len(cs) : CodeUnit(cs[n]) > 255
    THEN [ok |-> FALSE, value |-> ""]
    ELSE [ok |-> TRUE, value |-> Base64([n \in 1..Len(cs) |-> CodeUnit(cs[n])])]

(***************************************************************************)
(* JSON values.  A value is the set of its <<path, leaf>> pairs: a scalar  *)
(* is one pair with the empty path, an object is the union of its          *)
(* members' pairs, each path prefixed by the member's key.  The empty set  *)
(* is JavaScript's undefined, so that a member whose value is undefined    *)
(* is left out of the object, as JSON.stringify leaves it out.             *)
(***************************************************************************)
Leaf(t, v) == {<< <<>>, [t |-> t, v |-> v] >>}

undefined == {}
JNull == Leaf("null", "null")
JTrue == Leaf("boolean", "true")
JFalse == Leaf("boolean", "false")
JStr(s) == Leaf("string", s)
JNum(n) == Leaf("number", NumText(n))
EmptyObject == Leaf("object", "{}")
EmptyArray == Leaf("array", "[]")

Prefix(k, J) == {<< <<k>> \o e[1], e[2] >> : e \in J}

\* The object literal {k1: f[k1], ...}, as JSON.stringify writes it.
JObject(f) ==
    LET members == UNION {Prefix(k, f[k]) : k \in DOMAIN f}
    IN  IF members = {} THEN EmptyObject ELSE members

\* An array of JSON values; index n is the path element "[n]".
JArray(xs) ==
    IF xs = <<>> THEN EmptyArray
    ELSE UNION {Prefix("[" \o NumText(n - 1) \o "]", xs[n]) : n \in 1..Len(xs)}

IsScalar(J) == \E e \in J : e[1] = <<>> /\ e[2].t \notin {"object", "array"}

\* A path element "[n]" is an array index, never a key of an object.
IsIndex(k) == k \in {"[" \o NumText(n) \o "]" : n \in 0..9}

IsObject(J) ==
    \/ J = EmptyObject
    \/ J # {} /\ \A e \in J : e[1] # <<>> /\ ~IsIndex(Head(e[1]))

\* Property access J.k on a value other than null and undefined.
Get(J, k) ==
    {<<Tail(e[1]), e[2]>> : e \in {x \in J : x[1] # <<>> /\ Head(x[1]) = k}}

\* Mutant: a field counts as given as soon as it is present.
TruthyWhenPresent(J) == J # undefined

\* ToBoolean: the operand of ! and !!.
Truthy(J) == J \notin {undefined, JNull, JFalse, JNum(0), JStr("")}

\* ToString of a scalar or of {} or [], as URLSearchParams converts the
\* values of its record argument to USVString.
USVString(J) ==
    IF J = EmptyObject THEN "[object Object]"
    ELSE IF J = EmptyArray THEN ""
    ELSE (CHOOSE e \in J : e[1] = <<>>)[2].v

\* The keys every object of the model draws its members from, in the order
\* in which a body text lists them (the order Object.keys returns).
KeyOrder ==
    << "access_token", "token_type", "expires_in", "scope", "error",
       "_debug", "code", "redirect_uri", "code_verifier" >>

OwnKeys(J) == {e[1][1] : e \in {x \in J : x[1] # <<>>}}

\* Object.keys of a value other than null and undefined: the own
\* enumerable keys (none for a number or a boolean).
ObjectKeys(J) == SelectSeq(KeyOrder, LAMBDA k : k \in OwnKeys(J))

\* Mutant: the upstream members are not copied.
SpreadNothing(J) == {}

\* The members that {...J} copies: J's own enumerable properties (none
\* for null, a number or a boolean).
Spread(J) == {e \in J : e[1] # <<>>}

\* {...base, k: V}: a later member replaces an earlier one of the same key.
With(base, k, V) == {e \in base : Head(e[1]) # k} \union Prefix(k, V)

(***************************************************************************)
(* Promises: what an await resumes with.                                   *)
(***************************************************************************)
\* request.json() and response.json(): the parsed value.
Pending == [state |-> "pending", value |-> {}]
Rejected == [state |-> "rejected", value |-> {}]
Fulfilled(v) == [state |-> "fulfilled", value |-> v]

\* fetch(): the upstream Response (its status), or a network failure.
NotFetched == [state |-> "pending", status |-> 0]
NetworkError == [state |-> "rejected", status |-> 0]
Fetched(status) == [state |-> "fulfilled", status |-> status]

\* Date.now(), not read yet or read as t.
NotRead == [state |-> "pending", time |-> 0]
Read(t) == [state |-> "fulfilled", time |-> t]

\* Body.json() of a body text: the value it denotes, or a rejection when
\* the text is not JSON.
json(text) == IF text.valid THEN Fulfilled(text.json) ELSE Rejected

NotJson == [valid |-> FALSE, json |-> {}]
Text(J) == [valid |-> TRUE, json |-> J]

(***************************************************************************)
(* Responses and the result of running an async function so far.           *)
(***************************************************************************)
Response(body, status, headers) ==
    [status |-> status, headers |-> headers, body |-> body]

NoHeaders == [h \in {} |-> ""]
NoResponse == Response({}, 0, NoHeaders)

Suspended(where, issued) ==
    [at |-> where, calls |-> issued, response |-> NoResponse]
Returned(issued, response) ==
    [at |-> "done", calls |-> issued, response |-> response]

\* Mutant: every status below 400 counts as a success.
okBelow400(response) == response.status < 400

\* Response.ok
ok(response) == response.status >= 200 /\ response.status <= 299

(***************************************************************************)
(* CORS headers helper, preflight and JSON response helper.                *)
(***************************************************************************)
corsHeaders(origin, allowedOrigins) ==
    LET parts == split(allowedOrigins, ",")
        origins == [n \in 1..Len(parts) |-> trim(parts[n])]
        isAllowed == includes(origins, origin) \/ includes(origins, <<"*">>)
    IN  ("Access-Control-Allow-Origin"
             :> Str(IF isAllowed THEN origin ELSE origins[1]))
        @@ ("Access-Control-Allow-Methods" :> "POST, OPTIONS")
        @@ ("Access-Control-Allow-Headers" :> "Content-Type")
        @@ ("Access-Control-Max-Age" :> "86400")

\* Mutant: the origin is kept in a variable of the module, written by
\* the request in slot 1.
OriginOfShared(request) ==
    IF at[1] # "idle" /\ req[1].origin.present
    THEN req[1].origin.value
    ELSE IF request.origin.present THEN request.origin.value ELSE <<>>

\* request.headers.get('Origin') || ''
OriginOf(request) ==
    IF request.origin.present /\ request.origin.value # <<>>
    THEN request.origin.value
    ELSE <<>>

handleOptions(request, env_) ==
    Response({}, 204, corsHeaders(OriginOf(request), env_.ALLOWED_ORIGINS))

jsonResponse(data, status, origin, env_) ==
    Response(data, status,
             corsHeaders(origin, env_.ALLOWED_ORIGINS)
             @@ ("Content-Type" :> "application/json"))

FormHeaders == "Content-Type" :> "application/x-www-form-urlencoded"

\* Mutant: the credentials without the scheme.
BasicHeadersNoScheme(credentials) ==
    FormHeaders @@ ("Authorization" :> credentials)

BasicHeaders(credentials) ==
    FormHeaders @@ ("Authorization" :> ("Basic " \o credentials))

\* new URLSearchParams({k1: v1, ...}): the pairs in the order written.
URLSearchParams(pairs) ==
    [n \in 1..Len(pairs) |-> <<pairs[n][1], pairs[n][2]>>]

Request(url, headers, body) ==
    [url |-> url, method |-> "POST", headers |-> headers, body |-> body]

\* Mutant: the catch block reports a bad request.
InternalServerErrorAs400(origin, env_) ==
    jsonResponse(JObject("error" :> JStr("Invalid request body")),
                 400, origin, env_)

\* Mutant: the catch block tells what it was configured with.
InternalServerErrorWithConfig(origin, env_) ==
    jsonResponse(JObject(("error" :> JStr("Internal server error"))
                         @@ ("details" :> JStr(Str(env_.TWITCH_CLIENT_SECRET)))),
                 500, origin, env_)

InternalServerError(origin, env_) ==
    jsonResponse(JObject("error" :> JStr("Internal server error")),
                 500, origin, env_)

(***************************************************************************)
(* The five token exchange handlers.  io_ holds what the handler's awaits  *)
(* have resumed with so far: body (request.json()), fetch (the upstream    *)
(* response, with its status) and data (response.json()).  The try block   *)
(* turns every exception into the generic 500 (caught).                    *)
(***************************************************************************)
handleYouTubeToken(request, env_, origin, io_) ==
    LET caught == InternalServerError(origin, env_)
        body == io_.body.value
        code == Get(body, "code")
        redirect_uri == Get(body, "redirect_uri")
        call ==
            Request("https://oauth2.googleapis.com/token",
                FormHeaders,
                URLSearchParams(<<
                   <<"client_id", Str(env_.YOUTUBE_CLIENT_ID)>>,
                   <<"client_secret", Str(env_.YOUTUBE_CLIENT_SECRET)>>,
                   <<"code", USVString(code)>>,
                   <<"grant_type", "authorization_code">>,
                   <<"redirect_uri", USVString(redirect_uri)>> >>))
        response == io_.fetch
        data == io_.data.value
    IN
    IF io_.body.state = "pending" THEN Suspended("request.json", <<>>)
    ELSE IF io_.body.state = "rejected" THEN Returned(<<>>, caught)
    \* destructuring null throws a TypeError
    ELSE IF body = JNull THEN Returned(<<>>, caught)
    ELSE IF ~Truthy(code) \/ ~Truthy(redirect_uri)
    THEN Returned(<<>>, jsonResponse(
             JObject("error" :> JStr("Missing code or redirect_uri")),
             400, origin, env_))
    ELSE IF response.state = "pending" THEN Suspended("fetch", <<call>>)
    ELSE IF response.state = "rejected" THEN Returned(<<call>>, caught)
    ELSE IF io_.data.state = "pending"
    THEN Suspended("response.json", <<call>>)
    ELSE IF io_.data.state = "rejected" THEN Returned(<<call>>, caught)
    ELSE IF ~ok(response)
    THEN Returned(<<call>>, jsonResponse(
             JObject(("error" :> JStr("Token exchange failed"))
                     @@ ("details" :> data)),
             response.status, origin, env_))
    ELSE Returned(<<call>>, jsonResponse(data, 200, origin, env_))

handleDiscordToken(request, env_, origin, io_) ==
    LET caught == InternalServerError(origin, env_)
        body == io_.body.value
        code == Get(body, "code")
        redirect_uri == Get(body, "redirect_uri")
        call ==
            Request("https://discord.com/api/oauth2/token",
                FormHeaders,
                URLSearchParams(<<
                   <<"client_id", Str(env_.DISCORD_CLIENT_ID)>>,
                   <<"client_secret", Str(env_.DISCORD_CLIENT_SECRET)>>,
                   <<"code", USVString(code)>>,
                   <<"grant_type", "authorization_code">>,
                   <<"redirect_uri", USVString(redirect_uri)>> >>))
        response == io_.fetch
        data == io_.data.value
    IN
    IF io_.body.state = "pending" THEN Suspended("request.json", <<>>)
    ELSE IF io_.body.state = "rejected" THEN Returned(<<>>, caught)
    \* destructuring null throws a TypeError
    ELSE IF body = JNull THEN Returned(<<>>, caught)
    ELSE IF ~Truthy(code) \/ ~Truthy(redirect_uri)
    THEN Returned(<<>>, jsonResponse(
             JObject("error" :> JStr("Missing code or redirect_uri")),
             400, origin, env_))
    ELSE IF response.state = "pending" THEN Suspended("fetch", <<call>>)
    ELSE IF response.state = "rejected" THEN Returned(<<call>>, caught)
    ELSE IF io_.data.state = "pending"
    THEN Suspended("response.json", <<call>>)
    ELSE IF io_.data.state = "rejected" THEN Returned(<<call>>, caught)
    ELSE IF ~ok(response)
    THEN Returned(<<call>>, jsonResponse(
             JObject(("error" :> JStr("Token exchange failed"))
                     @@ ("details" :> data)),
             response.status, origin, env_))
    ELSE Returned(<<call>>, jsonResponse(data, 200, origin, env_))

handleSpotifyToken(request, env_, origin, io_) ==
    LET caught == InternalServerError(origin, env_)
        body == io_.body.value
        code == Get(body, "code")
        redirect_uri == Get(body, "redirect_uri")
        credentials ==
            btoa(env_.SPOTIFY_CLIENT_ID \o <<":">> \o env_.SPOTIFY_CLIENT_SECRET)
        call ==
            Request("https://accounts.spotify.com/api/token",
                BasicHeaders(credentials.value),
                URLSearchParams(<<
                   <<"code", USVString(code)>>,
                   <<"grant_type", "authorization_code">>,
                   <<"redirect_uri", USVString(redirect_uri)>> >>))
        response == io_.fetch
        data == io_.data.value
    IN
    IF io_.body.state = "pending" THEN Suspended("request.json", <<>>)
    ELSE IF io_.body.state = "rejected" THEN Returned(<<>>, caught)
    \* destructuring null throws a TypeError
    ELSE IF body = JNull THEN Returned(<<>>, caught)
    ELSE IF ~Truthy(code) \/ ~Truthy(redirect_uri)
    THEN Returned(<<>>, jsonResponse(
             JObject("error" :> JStr("Missing code or redirect_uri")),
             400, origin, env_))
    ELSE IF ~credentials.ok THEN Returned(<<>>, caught)
    ELSE IF response.state = "pending" THEN Suspended("fetch", <<call>>)
    ELSE IF response.state = "rejected" THEN Returned(<<call>>, caught)
    ELSE IF io_.data.state = "pending"
    THEN Suspended("response.json", <<call>>)
    ELSE IF io_.data.state = "rejected" THEN Returned(<<call>>, caught)
    ELSE IF ~ok(response)
    THEN Returned(<<call>>, jsonResponse(
             JObject(("error" :> JStr("Token exchange failed"))
                     @@ ("details" :> data)),
             response.status, origin, env_))
    ELSE Returned(<<call>>, jsonResponse(data, 200, origin, env_))

handleTwitterToken(request, env_, origin, io_) ==
    LET caught == InternalServerError(origin, env_)
        body == io_.body.value
        code == Get(body, "code")
        redirect_uri == Get(body, "redirect_uri")
        code_verifier == Get(body, "code_verifier")
        credentials ==
            btoa(env_.TWITTER_CLIENT_ID \o <<":">> \o env_.TWITTER_CLIENT_SECRET)
        call ==
            Request("https://api.twitter.com/2/oauth2/token",
                BasicHeaders(credentials.value),
                URLSearchParams(<<
                   <<"code", USVString(code)>>,
                   <<"grant_type", "authorization_code">>,
                   <<"redirect_uri", USVString(redirect_uri)>>,
                   <<"code_verifier", USVString(code_verifier)>> >>))
        response == io_.fetch
        data == io_.data.value
        debugResponse ==
            With(Spread(data), "_debug", JObject(
                ("keys" :> JArray([n \in 1..Len(ObjectKeys(data))
                                     |-> JStr(ObjectKeys(data)[n])]))
                @@ ("hasAccessToken"
                       :> (IF Truthy(Get(data, "access_token"))
                           THEN JTrue ELSE JFalse))
                @@ ("tokenType" :> Get(data, "token_type"))
                @@ ("expiresIn" :> Get(data, "expires_in"))
                @@ ("scope" :> Get(data, "scope"))))
    IN
    IF io_.body.state = "pending" THEN Suspended("request.json", <<>>)
    ELSE IF io_.body.state = "rejected" THEN Returned(<<>>, caught)
    \* destructuring null throws a TypeError
    ELSE IF body = JNull THEN Returned(<<>>, caught)
    ELSE IF ~Truthy(code) \/ ~Truthy(redirect_uri) \/ ~Truthy(code_verifier)
    THEN Returned(<<>>, jsonResponse(
             JObject("error" :> JStr("Missing code, redirect_uri, or code_verifier")),
             400, origin, env_))
    ELSE IF ~credentials.ok THEN Returned(<<>>, caught)
    ELSE IF response.state = "pending" THEN Suspended("fetch", <<call>>)
    ELSE IF response.state = "rejected" THEN Returned(<<call>>, caught)
    ELSE IF io_.data.state = "pending"
    THEN Suspended("response.json", <<call>>)
    ELSE IF io_.data.state = "rejected" THEN Returned(<<call>>, caught)
    ELSE IF ~ok(response)
    THEN Returned(<<call>>, jsonResponse(
             JObject(("error" :> JStr("Token exchange failed"))
                     @@ ("details" :> data)),
             response.status, origin, env_))
    \* Object.keys(null) throws a TypeError
    ELSE IF data = JNull THEN Returned(<<call>>, caught)
    ELSE Returned(<<call>>, jsonResponse(debugResponse, 200, origin, env_))

\* Mutant: the upstream request is sent again after a network failure.
handleTwitchTokenRetrying(request, env_, origin, io_) ==
    LET caught == InternalServerError(origin, env_)
        body == io_.body.value
        code == Get(body, "code")
        redirect_uri == Get(body, "redirect_uri")
        call ==
            Request("https://id.twitch.tv/oauth2/token",
                FormHeaders,
                URLSearchParams(<<
                   <<"client_id", Str(env_.TWITCH_CLIENT_ID)>>,
                   <<"client_secret", Str(env_.TWITCH_CLIENT_SECRET)>>,
                   <<"code", USVString(code)>>,
                   <<"grant_type", "authorization_code">>,
                   <<"redirect_uri", USVString(redirect_uri)>> >>))
        response == io_.fetch
        data == io_.data.value
    IN
    IF io_.body.state = "pending" THEN Suspended("request.json", <<>>)
    ELSE IF io_.body.state = "rejected" THEN Returned(<<>>, caught)
    \* destructuring null throws a TypeError
    ELSE IF body = JNull THEN Returned(<<>>, caught)
    ELSE IF ~Truthy(code) \/ ~Truthy(redirect_uri)
    THEN Returned(<<>>, jsonResponse(
             JObject("error" :> JStr("Missing code or redirect_uri")),
             400, origin, env_))
    ELSE IF response.state = "pending" THEN Suspended("fetch", <<call>>)
    ELSE IF response.state = "rejected" THEN Returned(<<call, call>>, caught)
    ELSE IF io_.data.state = "pending"
    THEN Suspended("response.json", <<call>>)
    ELSE IF io_.data.state = "rejected" THEN Returned(<<call>>, caught)
    ELSE IF ~ok(response)
    THEN Returned(<<call>>, jsonResponse(
             JObject(("error" :> JStr("Token exchange failed"))
                     @@ ("details" :> data)),
             response.status, origin, env_))
    ELSE Returned(<<call>>, jsonResponse(data, 200, origin, env_))

handleTwitchToken(request, env_, origin, io_) ==
    LET caught == InternalServerError(origin, env_)
        body == io_.body.value
        code == Get(body, "code")
        redirect_uri == Get(body, "redirect_uri")
        call ==
            Request("https://id.twitch.tv/oauth2/token",
                FormHeaders,
                URLSearchParams(<<
                   <<"client_id", Str(env_.TWITCH_CLIENT_ID)>>,
                   <<"client_secret", Str(env_.TWITCH_CLIENT_SECRET)>>,
                   <<"code", USVString(code)>>,
                   <<"grant_type", "authorization_code">>,
                   <<"redirect_uri", USVString(redirect_uri)>> >>))
        response == io_.fetch
        data == io_.data.value
    IN
    IF io_.body.state = "pending" THEN Suspended("request.json", <<>>)
    ELSE IF io_.body.state = "rejected" THEN Returned(<<>>, caught)
    \* destructuring null throws a TypeError
    ELSE IF body = JNull THEN Returned(<<>>, caught)
    ELSE IF ~Truthy(code) \/ ~Truthy(redirect_uri)
    THEN Returned(<<>>, jsonResponse(
             JObject("error" :> JStr("Missing code or redirect_uri")),
             400, origin, env_))
    ELSE IF response.state = "pending" THEN Suspended("fetch", <<call>>)
    ELSE IF response.state = "rejected" THEN Returned(<<call>>, caught)
    ELSE IF io_.data.state = "pending"
    THEN Suspended("response.json", <<call>>)
    ELSE IF io_.data.state = "rejected" THEN Returned(<<call>>, caught)
    ELSE IF ~ok(response)
    THEN Returned(<<call>>, jsonResponse(
             JObject(("error" :> JStr("Token exchange failed"))
                     @@ ("details" :> data)),
             response.status, origin, env_))
    ELSE Returned(<<call>>, jsonResponse(data, 200, origin, env_))

(***************************************************************************)
(* The router: the worker's fetch(request, env).  io_.now is what          *)
(* Date.now() returned, pending until the health check reads it.           *)
(***************************************************************************)
\* Mutant: the path with its query string.
pathnameWithSearch(url) == url.path \o url.search

\* new URL(request.url).pathname: the URL without its query string.
pathname(url) == url.path

fetch(request, env_, io_) ==
    LET path == pathname(request.url)
        method == request.method
        origin == OriginOf(request)
    IN
    IF method = "OPTIONS" THEN Returned(<<>>, handleOptions(request, env_))
    ELSE IF method = "POST" /\ path = "/auth/youtube/token"
    THEN handleYouTubeToken(request, env_, origin, io_)
    ELSE IF method = "POST" /\ path = "/auth/discord/token"
    THEN handleDiscordToken(request, env_, origin, io_)
    ELSE IF method = "POST" /\ path = "/auth/spotify/token"
    THEN handleSpotifyToken(request, env_, origin, io_)
    ELSE IF method = "POST" /\ path = "/auth/twitter/token"
    THEN handleTwitterToken(request, env_, origin, io_)
    ELSE IF method = "POST" /\ path = "/auth/twitch/token"
    THEN handleTwitchToken(request, env_, origin, io_)
    ELSE IF method = "GET" /\ path = "/health"
    THEN IF io_.now.state = "pending" THEN Suspended("Date.now", <<>>)
         ELSE Returned(<<>>, jsonResponse(
                  JObject(("status" :> JStr("ok"))
                          @@ ("timestamp" :> JNum(io_.now.time))),
                  200, origin, env_))
    ELSE Returned(<<>>, jsonResponse(
             JObject("error" :> JStr("Not found")), 404, origin, env_))

(***************************************************************************)
(* Configurations (Env).  The client identifiers are fixed; the secrets    *)
(* and ALLOWED_ORIGINS vary.  ALLOWED_ORIGINS and the Origin value are     *)
(* sequences of pieces: a comma, a space, or a run of other characters.    *)
(***************************************************************************)
Sofia == "https://sofia.example"
Other == "https://other.example"
Evil == "https://evil.example"

EnvOf(secrets, allowed) ==
    [ YOUTUBE_CLIENT_ID |-> <<"y", "t", "i", "d">>,
      YOUTUBE_CLIENT_SECRET |-> secrets.youtube,
      DISCORD_CLIENT_ID |-> <<"d", "c", "i", "d">>,
      DISCORD_CLIENT_SECRET |-> secrets.discord,
      SPOTIFY_CLIENT_ID |-> <<"s", "p">>,
      SPOTIFY_CLIENT_SECRET |-> secrets.spotify,
      TWITTER_CLIENT_ID |-> <<"t", "w", "i">>,
      TWITTER_CLIENT_SECRET |-> secrets.twitter,
      TWITCH_CLIENT_ID |-> <<"t", "c", "i", "d">>,
      TWITCH_CLIENT_SECRET |-> secrets.twitch,
      ALLOWED_ORIGINS |-> allowed ]

Secrets1 ==
    [ youtube |-> <<"y", "k", "1">>, discord |-> <<"d", "k", "1">>,
      spotify |-> <<"s", "s", "1">>, twitter |-> <<"t", "s", "1">>,
      twitch |-> <<"c", "k", "1">> ]

Secrets2 ==
    [ youtube |-> <<"y", "k", "2">>, discord |-> <<"d", "k", "2">>,
      spotify |-> <<"s", "s", "2">>, twitter |-> <<"t", "s", "2">>,
      twitch |-> <<"c", "k", "2">> ]

\* Secrets with a character btoa cannot encode.
Secrets3 ==
    [ youtube |-> <<"y", "k", "U+20AC">>, discord |-> <<"d", "k", "U+20AC">>,
      spotify |-> <<"s", "s", "U+20AC">>, twitter |-> <<"t", "s", "U+20AC">>,
      twitch |-> <<"c", "k", "U+20AC">> ]

SecretSets == {Secrets1, Secrets2, Secrets3}

AllowLists ==
    { <<Sofia, ",", Other>>,
      <<" ", Other, " ", ",", " ", Sofia, " ">>,
      <<"*">>,
      <<Other, ",", "*">>,
      <<Other>>,
      <<>> }

Envs == {EnvOf(s, a) : s \in SecretSets, a \in AllowLists}

FewEnvs == {EnvOf(Secrets1, <<Sofia, ",", Other>>), EnvOf(Secrets2, <<Other>>)}

(***************************************************************************)
(* Inbound requests.                                                       *)
(***************************************************************************)
TokenPaths ==
    { "/auth/youtube/token", "/auth/discord/token", "/auth/spotify/token",
      "/auth/twitter/token", "/auth/twitch/token" }

Url(path, search) == [path |-> path, search |-> search]

Urls ==
    {Url(p, "") : p \in TokenPaths \union
                        {"/health", "/", "/auth/youtube/token/",
                         "/auth/github/token", "/auth/youtube"}}
    \union {Url("/health", "?verbose=1"), Url("/auth/spotify/token", "?x=1")}

Methods == {"OPTIONS", "POST", "GET", "PUT"}

NoOrigin == [present |-> FALSE, value |-> <<>>]
Origin(cs) == [present |-> TRUE, value |-> cs]

Origins == {NoOrigin, Origin(<<Sofia>>), Origin(<<Other>>), Origin(<<Evil>>),
            Origin(<<"*">>)}

Exchange(code, redirect_uri, code_verifier) ==
    JObject(("code" :> code) @@ ("redirect_uri" :> redirect_uri)
            @@ ("code_verifier" :> code_verifier))

Codes == {undefined, JStr(""), JStr("c0de"), JNum(7)}
RedirectUris == {undefined, JNum(0), JStr("https://app.example/cb")}
CodeVerifiers == {undefined, JFalse, JStr("v3rifier")}

\* The body texts of a token request: not JSON (or empty), JSON that is
\* no object, and objects with each field absent, falsy or truthy.
Bodies ==
    {NotJson, Text(JNull), Text(JNum(7)), Text(JStr("code")),
     Text(JArray(<<JStr("code")>>))}
    \union {Text(Exchange(c, r, v)) :
               c \in Codes, r \in RedirectUris, v \in CodeVerifiers}

OtherBodies ==
    {NotJson,
     Text(Exchange(JStr("c0de"), JStr("https://app.example/cb"),
                   JStr("v3rifier")))}

InboundRequest(method, url, origin, body) ==
    [method |-> method, url |-> url, origin |-> origin, body |-> body]

IsTokenPost(request) ==
    request.method = "POST" /\ request.url.path \in TokenPaths

Requests ==
    {r \in {InboundRequest(m, u, o, b) :
               m \in Methods, u \in Urls, o \in Origins, b \in Bodies} :
        IsTokenPost(r) \/ r.body \in OtherBodies}

FewRequests ==
    { InboundRequest("OPTIONS", Url("/auth/youtube/token", ""),
                     Origin(<<Sofia>>), NotJson),
      InboundRequest("GET", Url("/health", ""), NoOrigin, NotJson),
      InboundRequest("POST", Url("/auth/youtube/token", ""),
                     Origin(<<Sofia>>),
                     Text(Exchange(JStr("c0de"),
                                   JStr("https://app.example/cb"),
                                   undefined))),
      InboundRequest("POST", Url("/auth/twitter/token", ""),
                     Origin(<<Evil>>),
                     Text(Exchange(JNum(7), JStr("https://app.example/cb"),
                                   JStr("v3rifier")))),
      InboundRequest("POST", Url("/auth/spotify/token", ""),
                     Origin(<<Other>>),
                     Text(Exchange(JStr("c0de"), undefined, undefined))) }

NoRequest == InboundRequest("", Url("", ""), NoOrigin, NotJson)

(***************************************************************************)
(* Upstream replies.                                                       *)
(***************************************************************************)
\* The statuses fetch() can resolve with here; 204 has no body.
UpstreamStatuses == {200, 204, 299, 300, 400, 500}

FetchOutcomes == {NetworkError} \union {Fetched(n) : n \in UpstreamStatuses}

FewFetchOutcomes == {NetworkError, Fetched(200), Fetched(400)}

TokenBody ==
    JObject(("access_token" :> JStr("abc")) @@ ("token_type" :> JStr("bearer")))

\* The upstream body texts: not JSON, JSON that is no object (top-level
\* strings and arrays are left out), and objects.
UpstreamBodies(status) ==
    IF status = 204 THEN {NotJson}
    ELSE { NotJson, Text(JNull), Text(JNum(7)), Text(EmptyObject),
           Text(TokenBody),
           Text(JObject("error" :> JStr("invalid_grant"))),
           Text(JObject(("access_token" :> JStr(""))
                        @@ ("expires_in" :> JNum(3600))
                        @@ ("scope" :> JStr("tweet.read"))
                        @@ ("_debug" :> JStr("upstream")))) }

FewUpstreamBodies(status) == {NotJson, Text(TokenBody)}

(***************************************************************************)
(* The state machine.  Each in-flight request i has its request req[i],    *)
(* the inputs delivered so far io[i], the await it is suspended at at[i],  *)
(* the upstream requests issued for it calls[i] and the responses          *)
(* returned for it sent[i].                                                *)
(***************************************************************************)
NoIO == [now |-> NotRead, body |-> Pending, fetch |-> NotFetched,
         data |-> Pending]

\* The worker runs request i's fetch with the inputs io_ and the model
\* records what it did since it was last suspended.
Resume(i, request, io_) ==
    LET run == fetch(request, env, io_)
        n == Len(calls[i])
    IN  /\ req' = [req EXCEPT ![i] = request]
        /\ io' = [io EXCEPT ![i] = io_]
        /\ at' = [at EXCEPT ![i] = run.at]
        /\ calls' = [calls EXCEPT
                        ![i] = @ \o SubSeq(run.calls, n + 1, Len(run.calls))]
        /\ sent' = [sent EXCEPT
                       ![i] = IF run.at = "done"
                              THEN Append(@, run.response) ELSE @]
        /\ UNCHANGED env

\* The runtime invokes fetch(request, env) for a new request.
Arrive(i, requests) ==
    /\ at[i] = "idle"
    /\ \E request \in requests : Resume(i, request, NoIO)

\* Date.now() in the health check.
DateNow(i) ==
    /\ at[i] = "Date.now"
    /\ \E t \in 0..MaxTime : Resume(i, req[i], [io[i] EXCEPT !.now = Read(t)])

\* await request.json() resumes.
RequestJson(i) ==
    /\ at[i] = "request.json"
    /\ Resume(i, req[i], [io[i] EXCEPT !.body = json(req[i].body)])

\* await fetch(...) resumes: the upstream answered, or the network failed.
FetchSettled(i, outcomes) ==
    /\ at[i] = "fetch"
    /\ \E outcome \in outcomes :
          Resume(i, req[i], [io[i] EXCEPT !.fetch = outcome])

\* await response.json() resumes.
ResponseJson(i, texts) ==
    /\ at[i] = "response.json"
    /\ \E text \in texts[io[i].fetch.status] :
          Resume(i, req[i], [io[i] EXCEPT !.data = json(text)])

InitFor(slots, envs) ==
    /\ env \in envs
    /\ req = [i \in slots |-> NoRequest]
    /\ io = [i \in slots |-> NoIO]
    /\ at = [i \in slots |-> "idle"]
    /\ calls = [i \in slots |-> <<>>]
    /\ sent = [i \in slots |-> <<>>]

\* One request, every input.
Init == InitFor({1}, Envs)

Next ==
    \/ \E i \in DOMAIN at : Arrive(i, Requests)
    \/ \E i \in DOMAIN at : DateNow(i)
    \/ \E i \in DOMAIN at : RequestJson(i)
    \/ \E i \in DOMAIN at : FetchSettled(i, FetchOutcomes)
    \/ \E i \in DOMAIN at :
          ResponseJson(i, [s \in UpstreamStatuses |-> UpstreamBodies(s)])

Spec == Init /\ [][Next]_vars

\* MaxReq requests in flight at once, a few inputs each.
InitConc == InitFor(1..MaxReq, FewEnvs)

NextConc ==
    \/ \E i \in DOMAIN at : Arrive(i, FewRequests)
    \/ \E i \in DOMAIN at : DateNow(i)
    \/ \E i \in DOMAIN at : RequestJson(i)
    \/ \E i \in DOMAIN at : FetchSettled(i, FewFetchOutcomes)
    \/ \E i \in DOMAIN at :
          ResponseJson(i, [s \in UpstreamStatuses |-> FewUpstreamBodies(s)])

SpecConc == InitConc /\ [][NextConc]_vars

(***************************************************************************)
(* Vocabulary of the properties below.                                     *)
(***************************************************************************)
Slots == DOMAIN at

Done(i) == at[i] = "done" /\ Len(sent[i]) >= 1

\* The response request i received.
Resp(i) == sent[i][1]

ProviderOf(request) ==
    CASE ~IsTokenPost(request) -> "none"
      [] request.url.path = "/auth/youtube/token" -> "youtube"
      [] request.url.path = "/auth/discord/token" -> "discord"
      [] request.url.path = "/auth/spotify/token" -> "spotify"
      [] request.url.path = "/auth/twitter/token" -> "twitter"
      [] request.url.path = "/auth/twitch/token" -> "twitch"

EndpointOf(p) ==
    CASE p = "youtube" -> "https://oauth2.googleapis.com/token"
      [] p = "discord" -> "https://discord.com/api/oauth2/token"
      [] p = "spotify" -> "https://accounts.spotify.com/api/token"
      [] p = "twitter" -> "https://api.twitter.com/2/oauth2/token"
      [] p = "twitch" -> "https://id.twitch.tv/oauth2/token"

ClientIdOf(e, p) ==
    CASE p = "youtube" -> e.YOUTUBE_CLIENT_ID
      [] p = "discord" -> e.DISCORD_CLIENT_ID
      [] p = "spotify" -> e.SPOTIFY_CLIENT_ID
      [] p = "twitter" -> e.TWITTER_CLIENT_ID
      [] p = "twitch" -> e.TWITCH_CLIENT_ID

ClientSecretOf(e, p) ==
    CASE p = "youtube" -> e.YOUTUBE_CLIENT_SECRET
      [] p = "discord" -> e.DISCORD_CLIENT_SECRET
      [] p = "spotify" -> e.SPOTIFY_CLIENT_SECRET
      [] p = "twitter" -> e.TWITTER_CLIENT_SECRET
      [] p = "twitch" -> e.TWITCH_CLIENT_SECRET

BodyCredentialProviders == {"youtube", "discord", "twitch"}
BasicAuthProviders == {"spotify", "twitter"}

\* The values of JavaScript that count as false, among those JSON has.
Falsy(J) ==
    \/ J = {}
    \/ \E e \in J : /\ J = {e}
                    /\ e[1] = <<>>
                    /\ \/ e[2].t = "null"
                       \/ e[2].t = "boolean" /\ e[2].v = "false"
                       \/ e[2].t = "number" /\ e[2].v = "0"
                       \/ e[2].t = "string" /\ e[2].v = ""

\* Member k of the request's JSON body; undefined when there is none.
Field(request, k) ==
    IF request.body.valid
    THEN {<<Tail(e[1]), e[2]>> :
             e \in {x \in request.body.json : x[1] # <<>> /\ x[1][1] = k}}
    ELSE {}

MissingRequired(request) ==
    \/ Falsy(Field(request, "code"))
    \/ Falsy(Field(request, "redirect_uri"))
    \/ ProviderOf(request) = "twitter" /\ Falsy(Field(request, "code_verifier"))

\* The JSON object {"error": msg}.
ErrorBody(msg) == {<< <<"error">>, [t |-> "string", v |-> msg] >>}

MissingMessage(p) ==
    IF p = "twitter" THEN "Missing code, redirect_uri, or code_verifier"
    ELSE "Missing code or redirect_uri"

\* client_id:client_secret has a character btoa cannot encode.
NotEncodable(e, p) ==
    LET cs == ClientIdOf(e, p) \o <<":">> \o ClientSecretOf(e, p)
    IN  \E n \in 1..Len(cs) : CodeUnit(cs[n]) > 255

UpstreamAnswered(i) == io[i].fetch.state = "fulfilled"
UpstreamStatus(i) == io[i].fetch.status
UpstreamJson(i) == io[i].data.state = "fulfilled"
UpstreamData(i) == io[i].data.value

(***************************************************************************)
(* C1.  Validation errors.                                                 *)
(***************************************************************************)
\* C1 as stated: for each of the five providers a token POST whose parsed
\* JSON body lacks a truthy code or redirect_uri is answered 400 with
\* {error: "Missing code or redirect_uri"}, and twitter rejects a missing
\* code_verifier with 400 and a validation message.
C1_AsStated ==
    \A i \in Slots :
        (Done(i) /\ IsTokenPost(req[i]) /\ req[i].body.valid
                 /\ MissingRequired(req[i]))
        => /\ Resp(i).status = 400
           /\ (Falsy(Field(req[i], "code"))
                  \/ Falsy(Field(req[i], "redirect_uri")))
              => Resp(i).body = ErrorBody("Missing code or redirect_uri")
           /\ Resp(i).body \in {ErrorBody(MissingMessage("youtube")),
                                ErrorBody(MissingMessage("twitter"))}

\* C1 amended: a token POST whose body parses to a JSON value other than
\* null and lacks a truthy code or redirect_uri (for twitter: or
\* code_verifier) is answered 400 with no upstream call; the body is
\* {error: "Missing code or redirect_uri"} for youtube, discord, spotify
\* and twitch and {error: "Missing code, redirect_uri, or code_verifier"}
\* for twitter, whichever field is missing.  A body that parses to null
\* is answered with the generic 500.
C1_Validation ==
    \A i \in Slots :
        /\ (Done(i) /\ IsTokenPost(req[i]) /\ req[i].body.valid
                    /\ req[i].body.json # JNull /\ MissingRequired(req[i]))
           => /\ Resp(i).status = 400
              /\ Resp(i).body = ErrorBody(MissingMessage(ProviderOf(req[i])))
              /\ calls[i] = <<>>
        /\ (Done(i) /\ IsTokenPost(req[i]) /\ req[i].body.valid
                    /\ req[i].body.json = JNull)
           => /\ Resp(i).status = 500
              /\ Resp(i).body = ErrorBody("Internal server error")
              /\ calls[i] = <<>>

\* Twitter rejects a request whose only missing field is code_verifier.
C1_Witness ==
    \E i \in Slots :
        /\ Done(i) /\ ProviderOf(req[i]) = "twitter"
        /\ ~Falsy(Field(req[i], "code"))
        /\ ~Falsy(Field(req[i], "redirect_uri"))
        /\ Field(req[i], "code_verifier") = JFalse
        /\ Resp(i).status = 400

(***************************************************************************)
(* C2.  Number of upstream requests per inbound request.                   *)
(***************************************************************************)
\* C2 as stated: the service issues no upstream request for a request that
\* is no token-exchange POST, whose body fails to parse or that lacks a
\* required field, exactly one otherwise, and never more than one.
C2_AsStated ==
    \A i \in Slots :
        /\ Len(calls[i]) <= 1
        /\ Done(i) =>
              Len(calls[i]) =
                  IF \/ ~IsTokenPost(req[i])
                     \/ ~req[i].body.valid
                     \/ MissingRequired(req[i])
                  THEN 0 ELSE 1

\* C2 amended: as stated, except that no upstream request is issued either
\* when the provider is spotify or twitter and client_id:client_secret
\* holds a character above U+00FF (btoa throws, the answer is the generic
\* 500); validation precedes the call: a request has no upstream request
\* before its body is read and exactly one while it awaits the reply.
C2_UpstreamCount ==
    \A i \in Slots :
        /\ Len(calls[i]) <= 1
        /\ at[i] \in {"idle", "Date.now", "request.json"} => calls[i] = <<>>
        /\ at[i] \in {"fetch", "response.json"} => Len(calls[i]) = 1
        /\ Done(i) =>
              Len(calls[i]) =
                  IF \/ ~IsTokenPost(req[i])
                     \/ ~req[i].body.valid
                     \/ MissingRequired(req[i])
                     \/ /\ ProviderOf(req[i]) \in BasicAuthProviders
                        /\ NotEncodable(env, ProviderOf(req[i]))
                  THEN 0 ELSE 1

\* A network failure after the one upstream request: nothing is retried.
C2_Witness ==
    \E i \in Slots :
        Done(i) /\ io[i].fetch.state = "rejected" /\ Len(calls[i]) = 1

(***************************************************************************)
(* C3.  Upstream rejection.                                                *)
(***************************************************************************)
TokenExchangeFailed(details) ==
    ErrorBody("Token exchange failed")
    \union {<< <<"details">> \o e[1], e[2] >> : e \in details}

\* C3 as stated: whenever the upstream answers with a status outside
\* 200..299 the caller gets that status and
\* {error: "Token exchange failed", details: <upstream body>}.
C3_AsStated ==
    \A i \in Slots :
        (Done(i) /\ UpstreamAnswered(i)
                 /\ ~(UpstreamStatus(i) \in 200..299))
        => /\ Resp(i).status = UpstreamStatus(i)
           /\ UpstreamJson(i)
           /\ Resp(i).body = TokenExchangeFailed(UpstreamData(i))

\* C3 amended: whenever the upstream answers with a status outside
\* 200..299 and a body that parses as JSON, the caller gets that status
\* and {error: "Token exchange failed", details: <upstream JSON>}; with a
\* body that does not parse as JSON the caller gets the generic 500.
C3_UpstreamRejection ==
    \A i \in Slots :
        /\ (Done(i) /\ UpstreamAnswered(i) /\ UpstreamJson(i)
                    /\ ~(UpstreamStatus(i) \in 200..299))
           => /\ Resp(i).status = UpstreamStatus(i)
              /\ Resp(i).body = TokenExchangeFailed(UpstreamData(i))
        /\ (Done(i) /\ UpstreamAnswered(i) /\ ~UpstreamJson(i)
                    /\ ~(UpstreamStatus(i) \in 200..299))
           => /\ Resp(i).status = 500
              /\ Resp(i).body = ErrorBody("Internal server error")

\* An upstream 300 with a JSON body is relayed as 300.
C3_Witness ==
    \E i \in Slots :
        /\ Done(i) /\ UpstreamAnswered(i) /\ UpstreamJson(i)
        /\ UpstreamStatus(i) = 300 /\ Resp(i).status = 300
        /\ UpstreamData(i) = JObject("error" :> JStr("invalid_grant"))

(***************************************************************************)
(* C4.  Upstream success.                                                  *)
(***************************************************************************)
\* The members of a JSON value other than _debug.
Rest(J) == {e \in J : e[1] # <<>> /\ e[1][1] # "_debug"}

Member(J, k) ==
    {<<Tail(e[1]), e[2]>> : e \in {x \in J : x[1] # <<>> /\ x[1][1] = k}}

KeysOf(J) == {e[1][1] : e \in {x \in J : x[1] # <<>>}}

\* The strings of a JSON array of strings.
StringsOf(J) == {e[2].v : e \in {x \in J : x[1] # <<>>}}

BooleanOf(b) ==
    {<< <<>>, [t |-> "boolean", v |-> IF b THEN "true" ELSE "false"] >>}

UpstreamSucceeded(i) ==
    Done(i) /\ UpstreamAnswered(i) /\ UpstreamStatus(i) \in 200..299

\* C4 as stated: whenever the upstream answers with a status in 200..299
\* the caller gets 200 and the upstream JSON body unchanged; for twitter
\* the body is the upstream JSON plus exactly one additional _debug member
\* holding keys, hasAccessToken, tokenType, expiresIn and scope, with all
\* upstream members preserved.
C4_AsStated ==
    \A i \in Slots :
        UpstreamSucceeded(i)
        => /\ Resp(i).status = 200
           /\ UpstreamJson(i)
           /\ ProviderOf(req[i]) # "twitter" => Resp(i).body = UpstreamData(i)
           /\ ProviderOf(req[i]) = "twitter" =>
                 LET debug == Member(Resp(i).body, "_debug")
                 IN  /\ "_debug" \notin KeysOf(UpstreamData(i))
                     /\ {e \in Resp(i).body : e[1][1] # "_debug"}
                            = UpstreamData(i)
                     /\ KeysOf(debug) = {"keys", "hasAccessToken", "tokenType",
                                         "expiresIn", "scope"}
                     /\ Member(debug, "hasAccessToken")
                            = BooleanOf(~Falsy(Member(UpstreamData(i),
                                                      "access_token")))

\* C4 amended: whenever the upstream answers with a status in 200..299 and
\* a body that parses as JSON, youtube, discord, spotify and twitch answer
\* 200 with that JSON value.  Twitter answers the generic 500 when the
\* value is null; otherwise it answers 200 with an object that holds the
\* upstream value's members other than _debug (none when the value is no
\* object) and a member _debug, which replaces an upstream _debug; _debug
\* holds keys (the upstream value's keys), hasAccessToken (true iff
\* access_token is truthy) and, for each of token_type, expires_in and
\* scope the upstream value has, its value as tokenType, expiresIn, scope,
\* and nothing else.  With a body that does not parse as JSON every
\* provider answers the generic 500.
C4_UpstreamSuccess ==
    \A i \in Slots :
      /\ (UpstreamSucceeded(i) /\ ~UpstreamJson(i))
         => /\ Resp(i).status = 500
            /\ Resp(i).body = ErrorBody("Internal server error")
      /\ (UpstreamSucceeded(i) /\ UpstreamJson(i))
        => LET data == UpstreamData(i)
               body == Resp(i).body
               debug == Member(body, "_debug")
           IN  IF ProviderOf(req[i]) # "twitter"
               THEN Resp(i).status = 200 /\ body = data
               ELSE IF data = JNull
               THEN /\ Resp(i).status = 500
                    /\ body = ErrorBody("Internal server error")
               ELSE /\ Resp(i).status = 200
                    /\ Rest(body) = Rest(data)
                    /\ KeysOf(body) = (KeysOf(data) \union {"_debug"})
                    /\ KeysOf(debug) \subseteq
                           {"keys", "hasAccessToken", "tokenType",
                            "expiresIn", "scope"}
                    /\ StringsOf(Member(debug, "keys")) = KeysOf(data)
                    /\ Cardinality(Member(debug, "keys"))
                           = IF KeysOf(data) = {} THEN 1
                             ELSE Cardinality(KeysOf(data))
                    /\ Member(debug, "hasAccessToken")
                           = BooleanOf(~Falsy(Member(data, "access_token")))
                    /\ Member(debug, "tokenType") = Member(data, "token_type")
                    /\ Member(debug, "expiresIn") = Member(data, "expires_in")
                    /\ Member(debug, "scope") = Member(data, "scope")

\* Twitter relays an upstream 299 whose body has a falsy access_token and
\* a _debug member of its own.
C4_Witness ==
    \E i \in Slots :
        /\ UpstreamSucceeded(i) /\ UpstreamJson(i)
        /\ ProviderOf(req[i]) = "twitter"
        /\ UpstreamStatus(i) = 299
        /\ "_debug" \in KeysOf(UpstreamData(i))
        /\ Resp(i).status = 200
        /\ Member(Member(Resp(i).body, "_debug"), "hasAccessToken")
               = BooleanOf(FALSE)

(***************************************************************************)
(* C5.  The upstream request.                                              *)
(***************************************************************************)
FormValues(call, k) ==
    {call.body[n][2] : n \in {m \in 1..Len(call.body) : call.body[m][1] = k}}

\* The text of a scalar JSON value.
TextOf(J) == (CHOOSE e \in J : TRUE)[2].v

\* RFC 4648 base64 of client_id:client_secret for the Basic-Auth
\* credentials of the configurations (reference encodings).
ReferenceBase64(p, secret) ==
    CASE p = "spotify" /\ secret = <<"s", "s", "1">> -> "c3A6c3Mx"
      [] p = "spotify" /\ secret = <<"s", "s", "2">> -> "c3A6c3My"
      [] p = "twitter" /\ secret = <<"t", "s", "1">> -> "dHdpOnRzMQ=="
      [] p = "twitter" /\ secret = <<"t", "s", "2">> -> "dHdpOnRzMg=="

\* C5: every upstream request is a POST to the matched provider's own
\* token endpoint with grant_type=authorization_code and the caller's code
\* and redirect_uri; youtube, discord and twitch put their own client_id
\* and client_secret in the form body and send no Authorization header;
\* spotify and twitter put neither in the form body and send
\* Authorization: Basic base64(client_id:client_secret) of their own
\* (twitter's body also carries code_verifier).
C5_UpstreamRequest ==
    \A i \in Slots : \A n \in 1..Len(calls[i]) :
        LET call == calls[i][n]
            p == ProviderOf(req[i])
        IN  /\ p # "none"
            /\ call.method = "POST"
            /\ call.url = EndpointOf(p)
            /\ call.headers["Content-Type"]
                   = "application/x-www-form-urlencoded"
            /\ FormValues(call, "grant_type") = {"authorization_code"}
            /\ FormValues(call, "code") = {TextOf(Field(req[i], "code"))}
            /\ FormValues(call, "redirect_uri")
                   = {TextOf(Field(req[i], "redirect_uri"))}
            /\ FormValues(call, "code_verifier")
                   = IF p = "twitter"
                     THEN {TextOf(Field(req[i], "code_verifier"))} ELSE {}
            /\ p \in BodyCredentialProviders =>
                  /\ FormValues(call, "client_id") = {Str(ClientIdOf(env, p))}
                  /\ FormValues(call, "client_secret")
                         = {Str(ClientSecretOf(env, p))}
                  /\ DOMAIN call.headers = {"Content-Type"}
            /\ p \in BasicAuthProviders =>
                  /\ FormValues(call, "client_id") = {}
                  /\ FormValues(call, "client_secret") = {}
                  /\ DOMAIN call.headers = {"Content-Type", "Authorization"}
                  /\ call.headers["Authorization"]
                         = "Basic " \o ReferenceBase64(p, ClientSecretOf(env, p))

\* Twitter has issued its upstream request, for a numeric code.
C5_Witness ==
    \E i \in Slots :
        /\ Len(calls[i]) = 1
        /\ ProviderOf(req[i]) = "twitter"
        /\ calls[i][1].headers["Authorization"] = "Basic dHdpOnRzMg=="
        /\ Field(req[i], "code") = JNum(7)

(***************************************************************************)
(* C6.  The client secrets do not reach the caller.                        *)
(***************************************************************************)
WithSecrets(e, secrets) == EnvOf(secrets, e.ALLOWED_ORIGINS)

SecretsOf(e) ==
    [ youtube |-> e.YOUTUBE_CLIENT_SECRET, discord |-> e.DISCORD_CLIENT_SECRET,
      spotify |-> e.SPOTIFY_CLIENT_SECRET, twitter |-> e.TWITTER_CLIENT_SECRET,
      twitch |-> e.TWITCH_CLIENT_SECRET ]

\* The configurations that differ from e in the client secrets only.
SecretVariants(e) == {WithSecrets(e, s) : s \in SecretSets}

\* The configurations that differ from e only in the secrets of the
\* providers other than p.
OtherSecretVariants(e, p) ==
    {WithSecrets(e, [s EXCEPT ![p] = SecretsOf(e)[p]]) : s \in SecretSets}

\* The full inputs of request i: what it has read so far, and any
\* upstream reply for what it has not.
Replies(i) ==
    { [now |-> io[i].now, body |-> json(req[i].body), fetch |-> f, data |-> d] :
        f \in (IF io[i].fetch.state = "pending"
               THEN FewFetchOutcomes ELSE {io[i].fetch}),
        d \in (IF io[i].data.state = "pending"
               THEN {json(t) : t \in FewUpstreamBodies(0)} ELSE {io[i].data}) }

Encodable(e) == \A p \in BasicAuthProviders : ~NotEncodable(e, p)

SecretFlowsOnlyUpstream(i) ==
    \A n \in 1..Len(calls[i]) :
        /\ calls[i][n].url = EndpointOf(ProviderOf(req[i]))
        /\ \A e \in OtherSecretVariants(env, ProviderOf(req[i])) :
               fetch(req[i], e, io[i]).calls = calls[i]

\* C6 as stated: under two configurations that differ only in the client
\* secrets, the same request paired with the same upstream reply or
\* failure gets the same response (status, headers and body); a secret
\* flows only into the upstream request to its own provider's endpoint.
C6_AsStated ==
    \A i \in Slots :
        /\ Done(i) =>
              \A e \in SecretVariants(env) : \A reply \in Replies(i) :
                  fetch(req[i], e, reply).response = Resp(i)
        /\ req[i] # NoRequest => SecretFlowsOnlyUpstream(i)

\* C6 amended: the same, for two configurations in both of which btoa can
\* encode spotify's and twitter's client_id:client_secret (no character
\* above U+00FF); where btoa cannot encode them, every valid exchange of
\* that provider is answered with the generic 500 and no upstream
\* request, which the caller can tell from the answer under another
\* secret.
C6_SecretsNotExposed ==
    \A i \in Slots :
        /\ (Done(i) /\ Encodable(env)) =>
              \A e \in SecretVariants(env) : \A reply \in Replies(i) :
                  Encodable(e) => fetch(req[i], e, reply).response = Resp(i)
        /\ (/\ Done(i) /\ IsTokenPost(req[i])
            /\ ProviderOf(req[i]) \in BasicAuthProviders
            /\ NotEncodable(env, ProviderOf(req[i]))
            /\ req[i].body.valid /\ req[i].body.json # JNull
            /\ ~MissingRequired(req[i]))
           => /\ Resp(i).status = 500
              /\ Resp(i).body = ErrorBody("Internal server error")
              /\ calls[i] = <<>>
        /\ req[i] # NoRequest => SecretFlowsOnlyUpstream(i)

\* A spotify exchange relayed under one set of secrets, with another set
\* that btoa can encode.
C6_Witness ==
    \E i \in Slots :
        /\ Done(i) /\ ProviderOf(req[i]) = "spotify"
        /\ UpstreamAnswered(i) /\ UpstreamJson(i)
        /\ Resp(i).status = 200
        /\ env.SPOTIFY_CLIENT_SECRET = <<"s", "s", "1">>
        /\ \E e \in SecretVariants(env) : e # env /\ Encodable(e)

(***************************************************************************)
(* C7.  CORS headers of every response.                                    *)
(***************************************************************************)
\* list[a..b] is a piece of the comma-separated list: it holds no comma
\* and is bounded by commas or the ends of the list.
Piece(list, a, b) ==
    /\ a \in 1..(Len(list) + 1) /\ b \in 0..Len(list) /\ a <= b + 1
    /\ \A n \in a..b : list[n] # ","
    /\ a = 1 \/ list[a - 1] = ","
    /\ b = Len(list) \/ list[b + 1] = ","

\* e is list[a..b] without its leading and trailing spaces.
Trimmed(list, a, b, e) ==
    \E c \in a..(b + 1) : \E d \in (c - 1)..b :
        /\ e = SubSeq(list, c, d)
        /\ \A n \in a..(c - 1) : list[n] = " "
        /\ \A n \in (d + 1)..b : list[n] = " "
        /\ e = <<>> \/ (e[1] # " " /\ e[Len(e)] # " ")

IsEntry(e, list) ==
    \E a \in 1..(Len(list) + 1) : \E b \in 0..Len(list) :
        Piece(list, a, b) /\ Trimmed(list, a, b, e)

IsFirstEntry(e, list) ==
    \E b \in 0..Len(list) : Piece(list, 1, b) /\ Trimmed(list, 1, b, e)

SubStrings(list) ==
    {SubSeq(list, c, d) : c \in 1..(Len(list) + 1), d \in 0..Len(list)}

\* The Origin value of a request, "" when the header is absent.
OriginValue(request) ==
    IF request.origin.present THEN request.origin.value ELSE <<>>

ExpectedAllowOrigin(request, list) ==
    IF IsEntry(OriginValue(request), list) \/ IsEntry(<<"*">>, list)
    THEN {Str(OriginValue(request))}
    ELSE {Str(e) : e \in {x \in SubStrings(list) : IsFirstEntry(x, list)}}

\* C7: every response carries Access-Control-Allow-Origin, equal to the
\* request's Origin value ("" when absent) if that value is an entry of
\* the trimmed comma-separated allow-list or the list has the entry *, and
\* to the first entry otherwise; Allow-Methods "POST, OPTIONS",
\* Allow-Headers "Content-Type", Max-Age "86400"; and every response but
\* the preflight's carries Content-Type: application/json.
C7_CorsHeaders ==
    \A i \in Slots : \A n \in 1..Len(sent[i]) :
        LET r == sent[i][n]
        IN  /\ {"Access-Control-Allow-Origin", "Access-Control-Allow-Methods",
                "Access-Control-Allow-Headers", "Access-Control-Max-Age"}
                   \subseteq DOMAIN r.headers
            /\ {r.headers["Access-Control-Allow-Origin"]}
                   = ExpectedAllowOrigin(req[i], env.ALLOWED_ORIGINS)
            /\ r.headers["Access-Control-Allow-Methods"] = "POST, OPTIONS"
            /\ r.headers["Access-Control-Allow-Headers"] = "Content-Type"
            /\ r.headers["Access-Control-Max-Age"] = "86400"
            /\ req[i].method # "OPTIONS" =>
                  /\ "Content-Type" \in DOMAIN r.headers
                  /\ r.headers["Content-Type"] = "application/json"

\* A 404 whose Origin is an entry of an allow-list written with spaces.
C7_Witness ==
    \E i \in Slots :
        /\ Done(i) /\ Resp(i).status = 404
        /\ req[i].origin = Origin(<<Sofia>>)
        /\ env.ALLOWED_ORIGINS = <<" ", Other, " ", ",", " ", Sofia, " ">>
        /\ Resp(i).headers["Access-Control-Allow-Origin"] = Sofia

(***************************************************************************)
(* C8.  The router.                                                        *)
(***************************************************************************)
HandlerOf(p, request, e, origin, io_) ==
    CASE p = "youtube" -> handleYouTubeToken(request, e, origin, io_)
      [] p = "discord" -> handleDiscordToken(request, e, origin, io_)
      [] p = "spotify" -> handleSpotifyToken(request, e, origin, io_)
      [] p = "twitter" -> handleTwitterToken(request, e, origin, io_)
      [] p = "twitch" -> handleTwitchToken(request, e, origin, io_)

HealthBody(t) ==
    { << <<"status">>, [t |-> "string", v |-> "ok"] >>,
      << <<"timestamp">>, [t |-> "number", v |-> NumText(t)] >> }

\* Request i has read nothing but its method, path and headers.
NothingRead(i) ==
    /\ io[i].body.state = "pending"
    /\ io[i].fetch.state = "pending"
    /\ io[i].data.state = "pending"

\* C8: OPTIONS on any path gives 204 with no body and invokes no handler;
\* else POST on one of the five token paths delegates to that provider's
\* handler and to no other; else GET on /health gives 200 {status: "ok",
\* timestamp: <epoch-ms>}; every other method and path gives 404
\* {error: "Not found"} and makes no upstream call.
C8_Router ==
    \A i \in Slots :
        at[i] # "idle" =>
            LET request == req[i]
                path == request.url.path
            IN  IF request.method = "OPTIONS"
                THEN /\ Done(i) /\ Len(sent[i]) = 1
                     /\ Resp(i).status = 204 /\ Resp(i).body = {}
                     /\ NothingRead(i) /\ io[i].now.state = "pending"
                     /\ calls[i] = <<>>
                ELSE IF request.method = "POST" /\ path \in TokenPaths
                THEN LET h == HandlerOf(ProviderOf(request), request, env,
                                        OriginValue(request), io[i])
                     IN  /\ at[i] = h.at
                         /\ calls[i] = h.calls
                         /\ Done(i) => sent[i] = <<h.response>>
                         /\ \A n \in 1..Len(calls[i]) :
                                calls[i][n].url = EndpointOf(ProviderOf(request))
                         /\ io[i].now.state = "pending"
                ELSE IF request.method = "GET" /\ path = "/health"
                THEN /\ NothingRead(i) /\ calls[i] = <<>>
                     /\ at[i] \in {"Date.now", "done"}
                     /\ Done(i) =>
                           /\ Len(sent[i]) = 1
                           /\ Resp(i).status = 200
                           /\ io[i].now.state = "fulfilled"
                           /\ io[i].now.time \in 0..MaxTime
                           /\ Resp(i).body = HealthBody(io[i].now.time)
                ELSE /\ Done(i) /\ Len(sent[i]) = 1
                     /\ Resp(i).status = 404
                     /\ Resp(i).body = ErrorBody("Not found")
                     /\ NothingRead(i) /\ io[i].now.state = "pending"
                     /\ calls[i] = <<>>

\* The health check answered, for a URL with a query string.
C8_Witness ==
    \E i \in Slots :
        /\ Done(i) /\ req[i].method = "GET"
        /\ req[i].url = Url("/health", "?verbose=1")
        /\ Resp(i).status = 200
        /\ Resp(i).body = HealthBody(MaxTime)

(***************************************************************************)
(* C9.  Unexpected failures.                                               *)
(***************************************************************************)
UnexpectedFailure(i) ==
    \/ ~req[i].body.valid
    \/ req[i].body.json = JNull
    \/ io[i].fetch.state = "rejected"
    \/ io[i].data.state = "rejected"

\* C9 as stated: an inbound body that is not JSON, an inbound JSON value
\* that is not an object, an upstream network failure and an upstream
\* body that is not JSON each end in 500 {error: "Internal server error"}.
C9_AsStated ==
    \A i \in Slots :
        (Done(i) /\ IsTokenPost(req[i])
                 /\ \/ UnexpectedFailure(i)
                    \/ req[i].body.valid /\ ~IsObject(req[i].body.json))
        => /\ Resp(i).status = 500
           /\ Resp(i).body = ErrorBody("Internal server error")

\* C9 amended: for every provider, an inbound body that is not JSON, an
\* inbound JSON null, an upstream network failure and an upstream body
\* that is not JSON each end in status 500 with the body
\* {error: "Internal server error"} and the headers of every other
\* response, so nothing tells the cause; a malformed inbound body gives
\* 500, not 400.  (An inbound number, string, boolean or array has no
\* code and is answered 400 like any body that lacks the fields.)
C9_UnexpectedFailure ==
    /\ \A i \in Slots :
        (Done(i) /\ IsTokenPost(req[i]) /\ UnexpectedFailure(i))
        => /\ Resp(i).status = 500
           /\ Resp(i).body = ErrorBody("Internal server error")
           /\ DOMAIN Resp(i).headers
                  = {"Access-Control-Allow-Origin",
                     "Access-Control-Allow-Methods",
                     "Access-Control-Allow-Headers",
                     "Access-Control-Max-Age", "Content-Type"}
    /\ \A i \in Slots :
        (Done(i) /\ IsTokenPost(req[i]) /\ req[i].body.valid
                 /\ ~IsObject(req[i].body.json) /\ req[i].body.json # JNull)
        => /\ Resp(i).status = 400
           /\ Resp(i).body = ErrorBody(MissingMessage(ProviderOf(req[i])))

\* A token POST whose body is not JSON is answered 500.
C9_Witness ==
    \E i \in Slots :
        /\ Done(i) /\ IsTokenPost(req[i]) /\ ~req[i].body.valid
        /\ Resp(i).status = 500 /\ calls[i] = <<>>

(***************************************************************************)
(* C10.  Requests in flight at once.                                       *)
(***************************************************************************)
SlotState(i) == <<req[i], io[i], at[i], calls[i], sent[i]>>

Independent ==
    \A i \in Slots :
        /\ Len(sent[i]) <= 1
        /\ at[i] = "done" <=> Len(sent[i]) = 1
        \* what request i did is what it does when handled alone
        /\ at[i] # "idle" =>
              LET alone == fetch(req[i], env, io[i])
              IN  /\ at[i] = alone.at
                  /\ calls[i] = alone.calls
                  /\ Done(i) => Resp(i) = alone.response
        \* and is a function of its own request and upstream reply
        /\ \A j \in Slots :
               (req[i] = req[j] /\ io[i] = io[j])
               => (calls[i] = calls[j] /\ sent[i] = sent[j])
        /\ \A n \in 1..Len(sent[i]) :
               {sent[i][n].headers["Access-Control-Allow-Origin"]}
                   = ExpectedAllowOrigin(req[i], env.ALLOWED_ORIGINS)

\* A step of one request leaves every other request as it was.
OneRequestPerStep ==
    \A i \in Slots :
        SlotState(i)' # SlotState(i)
        => \A j \in Slots \ {i} : SlotState(j)' = SlotState(j)

\* C10: with several requests in flight at once and their upstream
\* replies arriving in any order, each request that gets its reply (or
\* failure) receives exactly one response, the one it receives when
\* handled alone; no request's response or upstream call is affected by
\* another request.
C10_Independent == []Independent /\ [][OneRequestPerStep]_vars

\* Two token exchanges in flight at once, the second answered first.
C10_Witness ==
    \E i, j \in Slots :
        /\ i < j
        /\ at[i] = "response.json" /\ Done(j)
        /\ IsTokenPost(req[j]) /\ UpstreamAnswered(j)
        /\ req[i] # req[j]

====
